---- MODULE Spec2Model ----
(***************************************************************************)
(* The social-media API of social_media_api: the follow graph              *)
(* (accounts/views.py), the feed and the like/unlike handlers              *)
(* (posts/views.py) and the notification views (notifications/views.py).   *)
(*                                                                         *)
(* The project runs without ATOMIC_REQUESTS (settings.py), so every ORM    *)
(* call of a handler is a database statement of its own and the statements *)
(* of two requests interleave.  A handler is therefore one action per ORM  *)
(* statement; reads of tables that no modelled handler writes (the user    *)
(* table) and purely local tests are folded into the statement that        *)
(* follows them.  The operators Run... compose the statements of one       *)
(* handler without interleaving (a request served alone).                  *)
(***************************************************************************)
EXTENDS Integers, Sequences, FiniteSets, TLC

(* ------------------------------ bounds -------------------------------- *)
NumUsers == 2
MaxPosts == 2
MaxTargets == 1
MaxLikes == 2
MaxBooks == 2
MaxYear == 2026

(* ----------------------------- constants ------------------------------ *)
HTTP_200_OK == 200
HTTP_201_CREATED == 201
HTTP_204_NO_CONTENT == 204
HTTP_400_BAD_REQUEST == 400
HTTP_401_UNAUTHORIZED == 401
HTTP_404_NOT_FOUND == 404
HTTP_500_INTERNAL_SERVER_ERROR == 500

\* REST_FRAMEWORK['PAGE_SIZE']
PAGE_SIZE == 10

\* PostPagination.page_size and .max_page_size
PostPagination_page_size == 10
PostPagination_max_page_size == 100

\* request.user of a request that carries no credentials (AnonymousUser)
Anonymous == 0

\* the refusal of the books API and of permission_required, and a redirect
HTTP_403_FORBIDDEN == 403
HTTP_302_FOUND == 302

\* date.today().year when the books API starts
FirstYear == 2025

\* the rows of the user table (CustomUser.objects); no modelled handler
\* creates or deletes a user
Users == 1..NumUsers

\* the ids a URL can carry: every user's id and one id of no user
UserIds == 1..(NumUsers + 1)

\* the ids a like URL can carry: every post's id and one id of no post
TargetIds == 1..(MaxTargets + 1)

\* the request handlers that can be in flight at the same time
Procs == {"r1", "r2"}

VARIABLES
    following,      \* CustomUser.following: user -> set of users
    posts,          \* Post rows in creation order
    likes,          \* Like rows: records [id, user, post]
    likeSeq,        \* the number of Like rows created so far (the last id)
    notifications,  \* Notification rows in creation order
    req             \* per handler slot: the request being served

\* the tables of the engagement handlers
engagement == <<likes, likeSeq, notifications>>

\* the books API of advanced-api-project
VARIABLES
    books,          \* api.Book rows: records [id, title, publication_year, author]
    bookSeq,        \* the number of api.Book rows created so far (the last id)
    year,           \* date.today().year
    call            \* the last request to the books API with its response

catalog == <<books, bookSeq, year, call>>

\* the LibraryProject of advanced_features_and_security
VARIABLES
    groups,         \* Group rows: name -> codenames of Group.permissions
    members,        \* User.groups: user -> set of group names
    userPerms,      \* User.user_permissions: user -> set of "app.codename"
    shelves,        \* Book rows of each app: app label -> set of ids
    rowSeq,         \* app label -> the number of Book rows created so far
    page            \* the last request to a LibraryProject view with its response

library == <<groups, members, userPerms, shelves, rowSeq, page>>

\* the tables and slots of social_media_api
social == <<following, posts, likes, likeSeq, notifications, req>>

vars == <<following, posts, likes, likeSeq, notifications, req, catalog, library>>

(* --------------------------- request slots ---------------------------- *)
\* A slot that serves no request.
Idle ==
    [op |-> "none", user |-> Anonymous, arg |-> 0, query |-> "", pc |-> "idle",
     status |-> 0, error |-> "", out |-> 0, like |-> 0, pre |-> {}, alone |-> TRUE]

InFlight(r) == r.pc \notin {"idle", "done"}

\* The handlers whose requests record pre and alone.
Observed == {"follow", "unfollow"}

\* Slot p takes up request r (its first statement already executed).
\* For an observed request, alone records that no other request was in
\* flight when r arrived; the observed requests in flight at that moment
\* stop being alone.
Begin(p, r) ==
    [q \in Procs |->
        IF q = p
        THEN [r EXCEPT !.alone = r.op \in Observed
                                    => \A o \in Procs \ {p} : ~InFlight(req[o])]
        ELSE IF InFlight(req[q]) /\ req[q].op \in Observed
        THEN [req[q] EXCEPT !.alone = FALSE]
        ELSE req[q]]

\* The response of a handler that returns from its first statement.
Fail(op, u, id, code, msg) ==
    [op |-> op, user |-> u, arg |-> id, query |-> "", pc |-> "done",
     status |-> code, error |-> msg, out |-> 0, like |-> 0, pre |-> {}, alone |-> TRUE]

\* A handler that goes on to statement pc.
Goon(op, u, id, pc, pre) ==
    [op |-> op, user |-> u, arg |-> id, query |-> "", pc |-> pc,
     status |-> 0, error |-> "", out |-> 0, like |-> 0, pre |-> pre, alone |-> TRUE]

(* ----------------------- accounts: follow graph ----------------------- *)
\* mutant: the relation declared symmetrical, so that the add stores the
\* reverse pair as well
M2MAddSymmetrical(f, u, id) == [f EXCEPT ![u] = @ \cup {id}, ![id] = @ \cup {u}]

\* request.user.following.add(user_to_follow)
M2MAdd(f, u, id) == [f EXCEPT ![u] = @ \cup {id}]

\* mutant: the remove applied to the other user's relation
M2MRemoveSwapped(f, u, id) == [f EXCEPT ![id] = @ \ {u}]

\* request.user.following.remove(user_to_unfollow)
M2MRemove(f, u, id) == [f EXCEPT ![u] = @ \ {id}]

\* mutant: the count of the reverse relation (followers)
FollowersCount(f, u) == Cardinality({v \in Users : u \in f[v]})

\* request.user.following.count()
FollowingCount(f, u) == Cardinality(f[u])

\* mutant: FollowUserView.post without the self test
FollowCheckNoSelfTest(f, u, id) ==
    IF u = Anonymous
    THEN Fail("follow", u, id, HTTP_401_UNAUTHORIZED, "not authenticated")
    ELSE IF id \notin Users
    THEN Fail("follow", u, id, HTTP_404_NOT_FOUND, "not found")
    ELSE IF id \in f[u]
    THEN Fail("follow", u, id, HTTP_400_BAD_REQUEST, "You are already following")
    ELSE Goon("follow", u, id, "add", f[u])

\* mutant: FollowUserView.post without the already-following test
FollowCheckNoAlreadyTest(f, u, id) ==
    IF u = Anonymous
    THEN Fail("follow", u, id, HTTP_401_UNAUTHORIZED, "not authenticated")
    ELSE IF id \notin Users
    THEN Fail("follow", u, id, HTTP_404_NOT_FOUND, "not found")
    ELSE IF id = u
    THEN Fail("follow", u, id, HTTP_400_BAD_REQUEST, "You cannot follow yourself")
    ELSE Goon("follow", u, id, "add", f[u])

\* FollowUserView.post up to its add: permission, get_object_or_404, the
\* self test and the already-following test.
FollowCheck(f, u, id) ==
    IF u = Anonymous
    THEN Fail("follow", u, id, HTTP_401_UNAUTHORIZED, "not authenticated")
    ELSE IF id \notin Users
    THEN Fail("follow", u, id, HTTP_404_NOT_FOUND, "not found")
    ELSE IF id = u
    THEN Fail("follow", u, id, HTTP_400_BAD_REQUEST, "You cannot follow yourself")
    ELSE IF id \in f[u]
    THEN Fail("follow", u, id, HTTP_400_BAD_REQUEST, "You are already following")
    ELSE Goon("follow", u, id, "add", f[u])

\* mutant: UnfollowUserView.post without the not-following test
UnfollowCheckNoTest(f, u, id) ==
    IF u = Anonymous
    THEN Fail("unfollow", u, id, HTTP_401_UNAUTHORIZED, "not authenticated")
    ELSE IF id \notin Users
    THEN Fail("unfollow", u, id, HTTP_404_NOT_FOUND, "not found")
    ELSE Goon("unfollow", u, id, "remove", f[u])

\* mutant: the target looked up without get_object_or_404, so that a missing
\* user falls through to the not-following answer
UnfollowCheckNo404(f, u, id) ==
    IF u = Anonymous
    THEN Fail("unfollow", u, id, HTTP_401_UNAUTHORIZED, "not authenticated")
    ELSE IF id \notin Users \/ id \notin f[u]
    THEN Fail("unfollow", u, id, HTTP_400_BAD_REQUEST, "You are not following")
    ELSE Goon("unfollow", u, id, "remove", f[u])

\* UnfollowUserView.post up to its remove.
UnfollowCheck(f, u, id) ==
    IF u = Anonymous
    THEN Fail("unfollow", u, id, HTTP_401_UNAUTHORIZED, "not authenticated")
    ELSE IF id \notin Users
    THEN Fail("unfollow", u, id, HTTP_404_NOT_FOUND, "not found")
    ELSE IF id \notin f[u]
    THEN Fail("unfollow", u, id, HTTP_400_BAD_REQUEST, "You are not following")
    ELSE Goon("unfollow", u, id, "remove", f[u])

\* The 200 response with following_count.
Counted(r, n) == [r EXCEPT !.pc = "done", !.status = HTTP_200_OK, !.out = n]

FollowUserView_check(p) ==
    /\ req[p].pc = "idle"
    /\ \E u \in Users \cup {Anonymous}, id \in UserIds :
          req' = Begin(p, FollowCheck(following, u, id))
    /\ UNCHANGED <<catalog, library, following, posts, engagement>>

FollowUserView_add(p) ==
    /\ req[p].op = "follow" /\ req[p].pc = "add"
    /\ following' = M2MAdd(following, req[p].user, req[p].arg)
    /\ req' = [req EXCEPT ![p].pc = "count"]
    /\ UNCHANGED <<catalog, library, posts, engagement>>

FollowUserView_count(p) ==
    /\ req[p].op = "follow" /\ req[p].pc = "count"
    /\ req' = [req EXCEPT ![p] = Counted(@, FollowingCount(following, @.user))]
    /\ UNCHANGED <<catalog, library, following, posts, engagement>>

UnfollowUserView_check(p) ==
    /\ req[p].pc = "idle"
    /\ \E u \in Users \cup {Anonymous}, id \in UserIds :
          req' = Begin(p, UnfollowCheck(following, u, id))
    /\ UNCHANGED <<catalog, library, following, posts, engagement>>

UnfollowUserView_remove(p) ==
    /\ req[p].op = "unfollow" /\ req[p].pc = "remove"
    /\ following' = M2MRemove(following, req[p].user, req[p].arg)
    /\ req' = [req EXCEPT ![p].pc = "count"]
    /\ UNCHANGED <<catalog, library, posts, engagement>>

UnfollowUserView_count(p) ==
    /\ req[p].op = "unfollow" /\ req[p].pc = "count"
    /\ req' = [req EXCEPT ![p] = Counted(@, FollowingCount(following, @.user))]
    /\ UNCHANGED <<catalog, library, following, posts, engagement>>

\* The response has been sent; the slot serves the next request.
Respond(p) ==
    /\ req[p].pc = "done"
    /\ req' = [req EXCEPT ![p] = Idle]
    /\ UNCHANGED <<catalog, library, following, posts, engagement>>

\* FollowUserView.post served alone: the database after it and its response.
RunFollow(f, u, id) ==
    LET c == FollowCheck(f, u, id)
        g == M2MAdd(f, u, id)
    IN  IF c.pc = "done" THEN [following |-> f, resp |-> c]
        ELSE [following |-> g, resp |-> Counted(c, FollowingCount(g, u))]

\* UnfollowUserView.post served alone.
RunUnfollow(f, u, id) ==
    LET c == UnfollowCheck(f, u, id)
        g == M2MRemove(f, u, id)
    IN  IF c.pc = "done" THEN [following |-> f, resp |-> c]
        ELSE [following |-> g, resp |-> Counted(c, FollowingCount(g, u))]

\* The next statement of a follow or unfollow request r on the graph f; a
\* request with pc = "new" has arrived and executed nothing yet.
GraphStep(f, r) ==
    CASE r.op = "follow" /\ r.pc = "new" ->
            [following |-> f, r |-> FollowCheck(f, r.user, r.arg)]
      [] r.op = "follow" /\ r.pc = "add" ->
            [following |-> M2MAdd(f, r.user, r.arg), r |-> [r EXCEPT !.pc = "count"]]
      [] r.op = "unfollow" /\ r.pc = "new" ->
            [following |-> f, r |-> UnfollowCheck(f, r.user, r.arg)]
      [] r.op = "unfollow" /\ r.pc = "remove" ->
            [following |-> M2MRemove(f, r.user, r.arg), r |-> [r EXCEPT !.pc = "count"]]
      [] r.pc = "count" ->
            [following |-> f, r |-> Counted(r, FollowingCount(f, r.user))]

\* Two follow or unfollow requests served at the same time: the outcomes of
\* every interleaving of their statements.
RECURSIVE GraphRace(_, _, _)
GraphRace(f, a, b) ==
    IF a.pc = "done" /\ b.pc = "done" THEN {[following |-> f, a |-> a, b |-> b]}
    ELSE (IF a.pc = "done" THEN {}
          ELSE LET n == GraphStep(f, a) IN GraphRace(n.following, n.r, b))
         \cup
         (IF b.pc = "done" THEN {}
          ELSE LET n == GraphStep(f, b) IN GraphRace(n.following, a, n.r))

\* FollowUserView.post as one step (a request served alone).
FollowUserView_post(p) ==
    /\ req[p].pc = "idle"
    /\ \E u \in Users \cup {Anonymous}, id \in UserIds :
          LET r == RunFollow(following, u, id)
          IN  /\ following' = r.following
              /\ req' = Begin(p, r.resp)
    /\ UNCHANGED <<catalog, library, posts, engagement>>

\* UnfollowUserView.post as one step.
UnfollowUserView_post(p) ==
    /\ req[p].pc = "idle"
    /\ \E u \in Users \cup {Anonymous}, id \in UserIds :
          LET r == RunUnfollow(following, u, id)
          IN  /\ following' = r.following
              /\ req' = Begin(p, r.resp)
    /\ UNCHANGED <<catalog, library, posts, engagement>>

(* --------------------------- posts and feed --------------------------- *)
\* Post ids are positions in posts: no modelled handler deletes a post.
PostExists(id) == id \in 1..Len(posts)

\* Post.created_at: the clock never runs backwards, and two posts created
\* within its resolution carry the same created_at.
Stamps(rows) ==
    IF rows = <<>> THEN {1}
    ELSE {rows[Len(rows)].created_at, rows[Len(rows)].created_at + 1}

\* PostViewSet.create: perform_create saves the post with author=request.user.
PostViewSet_create(p) ==
    /\ req[p].pc = "idle"
    /\ Len(posts) < MaxPosts
    /\ \E u \in Users, t \in Stamps(posts) :
          /\ posts' = Append(posts, [author |-> u, created_at |-> t])
          /\ req' = Begin(p, [Fail("post", u, Len(posts) + 1,
                                   HTTP_201_CREATED, "") EXCEPT !.out = Len(posts) + 1])
    /\ UNCHANGED <<catalog, library, following, engagement>>

\* The sequences a query over ids may return under order_by(created_at):
\* every arrangement of ids in which created_at never increases (desc) or
\* never decreases; rows with equal created_at come in any order.
OrderBy(ids, rows, desc) ==
    {s \in [1..Cardinality(ids) -> ids] :
        /\ \A i, j \in DOMAIN s : i # j => s[i] # s[j]
        /\ \A i, j \in DOMAIN s :
              i < j => IF desc THEN rows[s[i]].created_at >= rows[s[j]].created_at
                       ELSE rows[s[i]].created_at <= rows[s[j]].created_at}

\* The values of the ordering query parameter the modelled requests carry
\* ("" for a request without it).
OrderingParams == {"", "created_at"}

\* The fields PostSerializer exposes that OrderingFilter accepts.
PostSerializerFields == {"created_at"}

\* OrderingFilter.filter_queryset, a DEFAULT_FILTER_BACKENDS entry applied by
\* every generic list view: a valid ordering parameter replaces the
\* queryset's order, an absent or invalid one keeps it.  TRUE for descending.
OrderingFilter(param, fields, desc) ==
    IF param \in fields THEN FALSE
    ELSE IF param \in {"-" \o f : f \in fields} THEN TRUE
    ELSE desc

\* FeedView.get_queryset: the posts whose author the user follows.
FeedPosts(f, u) == {i \in 1..Len(posts) : posts[i].author \in f[u]}

\* FeedView.get_queryset: ... .order_by('-created_at')
FeedQuerysetDesc == TRUE

\* PageNumberPagination, the DEFAULT_PAGINATION_CLASS: PAGE_SIZE items a
\* page, no page_size_query_param, no max_page_size.
PageNumberPagination ==
    [page_size |-> PAGE_SIZE, page_size_query_param |-> FALSE, max_page_size |-> 0]

\* PostPagination, the pagination_class of PostViewSet.
PostPagination ==
    [page_size |-> PostPagination_page_size, page_size_query_param |-> TRUE,
     max_page_size |-> PostPagination_max_page_size]

\* FeedView sets no pagination_class: it pages with the default class.
FeedPagination == PageNumberPagination

\* The values of the page_size query parameter the modelled feed requests
\* carry (0 for a request without it).
PageSizeParams == {0, 1}

\* PageNumberPagination.get_page_size: the requested size, cut off at
\* max_page_size, when the class names a page_size_query_param and the
\* request carries a positive one; page_size otherwise.
GetPageSize(paginator, requested) ==
    IF paginator.page_size_query_param /\ requested > 0
    THEN IF requested > paginator.max_page_size
         THEN paginator.max_page_size ELSE requested
    ELSE paginator.page_size

\* The first page of s.
FirstPage(s, size) == SubSeq(s, 1, IF Len(s) < size THEN Len(s) ELSE size)

\* FeedView.get (ListAPIView.list): filter_queryset(get_queryset()), the
\* first page of it, serialized.  arg is the request's page_size parameter.
FeedView_list(p) ==
    /\ req[p].pc = "idle"
    /\ \E u \in Users \cup {Anonymous}, o \in OrderingParams, n \in PageSizeParams :
          IF u = Anonymous
          THEN req' = Begin(p, [Fail("feed", u, n, HTTP_401_UNAUTHORIZED,
                                     "not authenticated") EXCEPT !.query = o])
          ELSE \E s \in OrderBy(FeedPosts(following, u), posts,
                                OrderingFilter(o, PostSerializerFields,
                                               FeedQuerysetDesc)) :
                  req' = Begin(p, [Fail("feed", u, n, HTTP_200_OK, "")
                                      EXCEPT !.query = o,
                                             !.out = FirstPage(s, GetPageSize(FeedPagination, n))])
    /\ UNCHANGED <<catalog, library, following, posts, engagement>>

(* ------------------------ likes and unlikes ------------------------- *)
\* The tables of the engagement handlers as one value, so that a handler's
\* statements can be composed (Run, Race) as well as taken as actions.
DB == [likes |-> likes, likeSeq |-> likeSeq, notifications |-> notifications]

SetDB(d) ==
    /\ likes' = d.likes
    /\ likeSeq' = d.likeSeq
    /\ notifications' = d.notifications

\* A request that has arrived and executed nothing yet.
New(op, u, id, q) ==
    [Idle EXCEPT !.op = op, !.user = u, !.arg = id, !.query = q, !.pc = "new"]

\* The handler returns code and msg.
Done(r, code, msg) == [r EXCEPT !.pc = "done", !.status = code, !.error = msg]

\* The Like model's constraint: one row per (user, post).
LikeUniqueTogether == TRUE

\* Like.objects.filter(user=u, post=id)
LikeRows(ls, u, id) == {l \in ls : l.user = u /\ l.post = id}

\* if post.author != request.user
NotifiesAuthor(u, id) == posts[id].author # u

\* The 201 response with the serialized like.
Created(r, like) ==
    [r EXCEPT !.pc = "done", !.status = HTTP_201_CREATED, !.out = like, !.like = like]

\* mutant: the view without its `if not created` answer, so that a like
\* that finds the row goes on as a new like does
LikeGetNoCreatedTest(d, r) ==
    LET rows == LikeRows(d.likes, r.user, r.arg)
    IN  [db |-> d,
         r  |-> IF r.user = Anonymous
                THEN Done(r, HTTP_401_UNAUTHORIZED, "not authenticated")
                ELSE IF ~PostExists(r.arg)
                THEN Done(r, HTTP_404_NOT_FOUND, "not found")
                ELSE IF Cardinality(rows) > 1
                THEN Done(r, HTTP_500_INTERNAL_SERVER_ERROR, "MultipleObjectsReturned")
                ELSE IF rows # {}
                THEN IF NotifiesAuthor(r.user, r.arg)
                     THEN [r EXCEPT !.pc = "notify", !.like = (CHOOSE l \in rows : TRUE).id]
                     ELSE Created(r, (CHOOSE l \in rows : TRUE).id)
                ELSE [r EXCEPT !.pc = "create"]]

\* mutant: the post looked up before the permission is checked
LikeGetPostFirst(d, r) ==
    LET rows == LikeRows(d.likes, r.user, r.arg)
    IN  [db |-> d,
         r  |-> IF ~PostExists(r.arg)
                THEN Done(r, HTTP_404_NOT_FOUND, "not found")
                ELSE IF r.user = Anonymous
                THEN Done(r, HTTP_401_UNAUTHORIZED, "not authenticated")
                ELSE IF Cardinality(rows) > 1
                THEN Done(r, HTTP_500_INTERNAL_SERVER_ERROR, "MultipleObjectsReturned")
                ELSE IF rows # {}
                THEN Done(r, HTTP_400_BAD_REQUEST, "You have already liked this post")
                ELSE [r EXCEPT !.pc = "create"]]

\* The first SELECT of Like.objects.get_or_create(user=request.user,
\* post=post), after the permission test and get_object_or_404(Post, pk=pk):
\* a row found is (like, False) and the view answers 400.
LikeGet(d, r) ==
    LET rows == LikeRows(d.likes, r.user, r.arg)
    IN  [db |-> d,
         r  |-> IF r.user = Anonymous
                THEN Done(r, HTTP_401_UNAUTHORIZED, "not authenticated")
                ELSE IF ~PostExists(r.arg)
                THEN Done(r, HTTP_404_NOT_FOUND, "not found")
                ELSE IF Cardinality(rows) > 1
                THEN Done(r, HTTP_500_INTERNAL_SERVER_ERROR, "MultipleObjectsReturned")
                ELSE IF rows # {}
                THEN Done(r, HTTP_400_BAD_REQUEST, "You have already liked this post")
                ELSE [r EXCEPT !.pc = "create"]]

\* mutant: the row is inserted without get_or_create's handling of the
\* IntegrityError, which then ends the request with 500
LikeCreateUnhandled(d, r) ==
    IF LikeUniqueTogether /\ LikeRows(d.likes, r.user, r.arg) # {}
    THEN [db |-> d, r |-> Done(r, HTTP_500_INTERNAL_SERVER_ERROR, "IntegrityError")]
    ELSE LET id == d.likeSeq + 1
         IN  [db |-> [d EXCEPT !.likeSeq = id,
                               !.likes = @ \cup {[id |-> id, user |-> r.user,
                                                  post |-> r.arg]}],
              r  |-> IF NotifiesAuthor(r.user, r.arg)
                     THEN [r EXCEPT !.pc = "notify", !.like = id]
                     ELSE Created(r, id)]

\* mutant: a notification for every like, the author's own included
LikeCreateNotifyAlways(d, r) ==
    IF LikeUniqueTogether /\ LikeRows(d.likes, r.user, r.arg) # {}
    THEN [db |-> d, r |-> [r EXCEPT !.pc = "retry"]]
    ELSE LET id == d.likeSeq + 1
         IN  [db |-> [d EXCEPT !.likeSeq = id,
                               !.likes = @ \cup {[id |-> id, user |-> r.user,
                                                  post |-> r.arg]}],
              r  |-> [r EXCEPT !.pc = "notify", !.like = id]]

\* The INSERT of get_or_create.  The database refuses the row when the
\* unique constraint forbids it (IntegrityError), and get_or_create then
\* SELECTs again; otherwise the row is created, and the view goes on to the
\* notification when the post is somebody else's.
LikeCreate(d, r) ==
    IF LikeUniqueTogether /\ LikeRows(d.likes, r.user, r.arg) # {}
    THEN [db |-> d, r |-> [r EXCEPT !.pc = "retry"]]
    ELSE LET id == d.likeSeq + 1
         IN  [db |-> [d EXCEPT !.likeSeq = id,
                               !.likes = @ \cup {[id |-> id, user |-> r.user,
                                                  post |-> r.arg]}],
              r  |-> IF NotifiesAuthor(r.user, r.arg)
                     THEN [r EXCEPT !.pc = "notify", !.like = id]
                     ELSE Created(r, id)]

\* get_or_create after an IntegrityError: a row found is (like, False) and
\* the view answers 400; none found re-raises the error.
LikeRetry(d, r) ==
    [db |-> d,
     r  |-> IF LikeRows(d.likes, r.user, r.arg) # {}
            THEN Done(r, HTTP_400_BAD_REQUEST, "You have already liked this post")
            ELSE Done(r, HTTP_500_INTERNAL_SERVER_ERROR, "IntegrityError")]

\* Notification.objects.create(recipient=post.author, actor=request.user,
\* verb='liked your post', content_type_id=..., object_id=post.id); read
\* takes the model's default, created_at (auto_now_add) the stamp t.
LikeNotification(u, id, t) ==
    [recipient |-> posts[id].author, actor |-> u, verb |-> "liked your post",
     target |-> id, read |-> FALSE, created_at |-> t]

\* mutant: recipient and actor exchanged in Notification.objects.create
LikeNotifySwapped(d, r) ==
    [db |-> [d EXCEPT !.notifications =
                Append(@, [LikeNotification(r.user, r.arg, Len(@) + 1)
                              EXCEPT !.recipient = r.user,
                                     !.actor = posts[r.arg].author])],
     r  |-> Created(r, r.like)]

\* The notification's INSERT and the 201 response.  The stamp of a
\* notification is its position in creation order (no two rows share one).
LikeNotify(d, r) ==
    [db |-> [d EXCEPT !.notifications =
                Append(@, LikeNotification(r.user, r.arg, Len(@) + 1))],
     r  |-> Created(r, r.like)]

\* UnlikePostView.delete up to like.delete(): permission, the post and the
\* like, each through get_object_or_404.
UnlikeGet(d, r) ==
    LET rows == LikeRows(d.likes, r.user, r.arg)
    IN  [db |-> d,
         r  |-> IF r.user = Anonymous
                THEN Done(r, HTTP_401_UNAUTHORIZED, "not authenticated")
                ELSE IF ~PostExists(r.arg)
                THEN Done(r, HTTP_404_NOT_FOUND, "not found")
                ELSE IF rows = {}
                THEN Done(r, HTTP_404_NOT_FOUND, "not found")
                ELSE IF Cardinality(rows) > 1
                THEN Done(r, HTTP_500_INTERNAL_SERVER_ERROR, "MultipleObjectsReturned")
                ELSE [r EXCEPT !.pc = "delete",
                               !.like = (CHOOSE l \in rows : TRUE).id]]

\* mutant: the delete applied to every like of the post
UnlikeDeleteAllOfPost(d, r) ==
    [db |-> [d EXCEPT !.likes = {l \in @ : l.post # r.arg}],
     r  |-> Done(r, HTTP_204_NO_CONTENT, "")]

\* mutant: the unlike retracting the notifications its like had sent
UnlikeDeleteRetracting(d, r) ==
    [db |-> [d EXCEPT !.likes = {l \in @ : l.id # r.like},
                      !.notifications =
                          SelectSeq(@, LAMBDA n : ~(n.actor = r.user /\ n.target = r.arg))],
     r  |-> Done(r, HTTP_204_NO_CONTENT, "")]

\* like.delete(): DELETE by primary key, of no row when it is gone already.
UnlikeDelete(d, r) ==
    [db |-> [d EXCEPT !.likes = {l \in @ : l.id # r.like}],
     r  |-> Done(r, HTTP_204_NO_CONTENT, "")]

\* The like requests that have yet to insert their row.
PendingLikes ==
    Cardinality({p \in Procs : req[p].op = "like" /\ req[p].pc = "create"})

LikePostView_get(p) ==
    /\ req[p].pc = "idle"
    /\ likeSeq + PendingLikes < MaxLikes
    /\ \E u \in Users \cup {Anonymous}, id \in TargetIds :
          req' = Begin(p, LikeGet(DB, New("like", u, id, "")).r)
    /\ UNCHANGED <<catalog, library, following, posts, engagement>>

LikePostView_create(p) ==
    /\ req[p].op = "like" /\ req[p].pc = "create"
    /\ LET n == LikeCreate(DB, req[p])
       IN  SetDB(n.db) /\ req' = [req EXCEPT ![p] = n.r]
    /\ UNCHANGED <<catalog, library, following, posts>>

LikePostView_retry(p) ==
    /\ req[p].op = "like" /\ req[p].pc = "retry"
    /\ req' = [req EXCEPT ![p] = LikeRetry(DB, @).r]
    /\ UNCHANGED <<catalog, library, following, posts, engagement>>

LikePostView_notify(p) ==
    /\ req[p].op = "like" /\ req[p].pc = "notify"
    /\ LET n == LikeNotify(DB, req[p])
       IN  SetDB(n.db) /\ req' = [req EXCEPT ![p] = n.r]
    /\ UNCHANGED <<catalog, library, following, posts>>

UnlikePostView_get(p) ==
    /\ req[p].pc = "idle"
    /\ \E u \in Users \cup {Anonymous}, id \in TargetIds :
          req' = Begin(p, UnlikeGet(DB, New("unlike", u, id, "")).r)
    /\ UNCHANGED <<catalog, library, following, posts, engagement>>

UnlikePostView_delete(p) ==
    /\ req[p].op = "unlike" /\ req[p].pc = "delete"
    /\ LET n == UnlikeDelete(DB, req[p])
       IN  SetDB(n.db) /\ req' = [req EXCEPT ![p] = n.r]
    /\ UNCHANGED <<catalog, library, following, posts>>

(* --------------------------- notifications ---------------------------- *)
\* Notification.objects.filter(recipient=u): the rows' positions.
NotificationsOf(ns, u) == {i \in 1..Len(ns) : ns[i].recipient = u}

\* Notification.objects.filter(recipient=u, read=False)
Unread(ns, u) == {i \in NotificationsOf(ns, u) : ~ns[i].read}

\* mutant: the update written as a toggle of read on the rows of u
MarkReadToggle(ns, u) ==
    [i \in 1..Len(ns) |->
        IF i \in NotificationsOf(ns, u) THEN [ns[i] EXCEPT !.read = ~@] ELSE ns[i]]

\* mutant: the update without its recipient filter
MarkReadEveryone(ns, u) ==
    [i \in 1..Len(ns) |-> [ns[i] EXCEPT !.read = TRUE]]

\* .update(read=True) on the unread rows of u
MarkRead(ns, u) ==
    [i \in 1..Len(ns) |->
        IF i \in Unread(ns, u) THEN [ns[i] EXCEPT !.read = TRUE] ELSE ns[i]]

\* NotificationListView.get_queryset: ... .order_by('-created_at')
NotificationQuerysetDesc == TRUE

\* The fields NotificationSerializer exposes that OrderingFilter accepts,
\* among the modelled parameters.
NotificationSerializerFields == {"created_at"}

\* NotificationSerializer on one row: target is the model's GenericForeignKey
\* listed as a plain field, so it serializes to the target object itself,
\* which the JSON renderer cannot encode (TypeError).  TRUE when the row
\* renders: when its target is no object.
Renders(row) == ~PostExists(row.target)

\* NotificationListView.get, first statement: the bulk update.  pre records
\* the rows that were unread.
ListUpdate(d, r) ==
    IF r.user = Anonymous
    THEN [db |-> d, r |-> Done(r, HTTP_401_UNAUTHORIZED, "not authenticated")]
    ELSE [db |-> [d EXCEPT !.notifications = MarkRead(@, r.user)],
          r  |-> [r EXCEPT !.pc = "list", !.pre = Unread(d.notifications, r.user)]]

\* NotificationListView.get, super().get: the filtered queryset, one page of
\* it, serialized and rendered.  out is the page of rows (their positions)
\* handed to the serializer; the response is 200 with them when every row
\* renders and 500 otherwise.
ListPage(d, r) ==
    LET ns == d.notifications
        s  == CHOOSE q \in OrderBy(NotificationsOf(ns, r.user), ns,
                                   OrderingFilter(r.query, NotificationSerializerFields,
                                                  NotificationQuerysetDesc)) : TRUE
        ok == \A i \in DOMAIN s : Renders(ns[s[i]])
    IN  [db |-> d,
         r  |-> [r EXCEPT !.pc = "done", !.out = s,
                          !.status = IF ok THEN HTTP_200_OK
                                     ELSE HTTP_500_INTERNAL_SERVER_ERROR,
                          !.error = IF ok THEN "" ELSE "TypeError"]]

\* mutant: the count view marking what it counts as read
UnreadCountMarking(d, r) ==
    IF r.user = Anonymous
    THEN [db |-> d, r |-> Done(r, HTTP_401_UNAUTHORIZED, "not authenticated")]
    ELSE [db |-> [d EXCEPT !.notifications = MarkRead(@, r.user)],
          r  |-> [Done(r, HTTP_200_OK, "")
                     EXCEPT !.out = Cardinality(Unread(d.notifications, r.user))]]

\* UnreadNotificationCountView.get
UnreadCount(d, r) ==
    [db |-> d,
     r  |-> IF r.user = Anonymous
            THEN Done(r, HTTP_401_UNAUTHORIZED, "not authenticated")
            ELSE [Done(r, HTTP_200_OK, "")
                     EXCEPT !.out = Cardinality(Unread(d.notifications, r.user))]]

NotificationListView_update(p) ==
    /\ req[p].pc = "idle"
    /\ \E u \in Users \cup {Anonymous}, o \in OrderingParams :
          LET n == ListUpdate(DB, New("list", u, 0, o))
          IN  SetDB(n.db) /\ req' = Begin(p, n.r)
    /\ UNCHANGED <<catalog, library, following, posts>>

NotificationListView_list(p) ==
    /\ req[p].op = "list" /\ req[p].pc = "list"
    /\ req' = [req EXCEPT ![p] = ListPage(DB, @).r]
    /\ UNCHANGED <<catalog, library, following, posts, engagement>>

UnreadNotificationCountView_get(p) ==
    /\ req[p].pc = "idle"
    /\ \E u \in Users \cup {Anonymous} :
          LET n == UnreadCount(DB, New("unread", u, 0, ""))
          IN  SetDB(n.db) /\ req' = Begin(p, n.r)
    /\ UNCHANGED <<catalog, library, following, posts>>

\* The next statement of a handler of this section.
Step(d, r) ==
    CASE r.op = "like"   /\ r.pc = "new"    -> LikeGet(d, r)
      [] r.op = "like"   /\ r.pc = "create" -> LikeCreate(d, r)
      [] r.op = "like"   /\ r.pc = "retry"  -> LikeRetry(d, r)
      [] r.op = "like"   /\ r.pc = "notify" -> LikeNotify(d, r)
      [] r.op = "unlike" /\ r.pc = "new"    -> UnlikeGet(d, r)
      [] r.op = "unlike" /\ r.pc = "delete" -> UnlikeDelete(d, r)
      [] r.op = "list"   /\ r.pc = "new"    -> ListUpdate(d, r)
      [] r.op = "list"   /\ r.pc = "list"   -> ListPage(d, r)
      [] r.op = "unread" /\ r.pc = "new"    -> UnreadCount(d, r)

\* A handler served alone: its statements one after the other.
RECURSIVE Run(_, _)
Run(d, r) == IF r.pc = "done" THEN [db |-> d, r |-> r]
             ELSE LET n == Step(d, r) IN Run(n.db, n.r)

\* Two handlers served at the same time: the outcomes of every interleaving
\* of their statements.
RECURSIVE Race(_, _, _)
Race(d, a, b) ==
    IF a.pc = "done" /\ b.pc = "done" THEN {[db |-> d, a |-> a, b |-> b]}
    ELSE (IF a.pc = "done" THEN {}
          ELSE LET n == Step(d, a) IN Race(n.db, n.r, b))
         \cup
         (IF b.pc = "done" THEN {}
          ELSE LET n == Step(d, b) IN Race(n.db, a, n.r))

(* ------------------------ claims: follow graph ------------------------ *)
\* The request that slot p takes up in this step.
Arrives(p, op) == req[p].pc = "idle" /\ req'[p].op = op

\* Slot p's request has returned r with code and message.
Returned(r, op, code, msg) ==
    r.op = op /\ r.pc = "done" /\ r.status = code /\ r.error = msg

\* C2: in every reachable state, after any interleaving of follow and
\* unfollow requests, no user is a member of their own following set.
C2_NoSelfFollowing == \A u \in Users : u \notin following[u]

\* C2 witness: a self-follow was refused while somebody follows somebody.
C2_Witness ==
    /\ \E u \in Users : following[u] # {}
    /\ \E p \in Procs :
          Returned(req[p], "follow", HTTP_400_BAD_REQUEST, "You cannot follow yourself")

\* C3: follow(A, A) for an existing user A always fails with 400 "You cannot
\* follow yourself", whatever A follows, and leaves following unchanged: the
\* request returns from its first statement, every step of it leaves
\* following alone, and served alone on any reachable graph it does the same.
C3_SelfFollowFails ==
    [][ /\ \A p \in Procs :
            (Arrives(p, "follow") /\ req'[p].user \in Users
                /\ req'[p].arg = req'[p].user)
            => /\ Returned(req'[p], "follow", HTTP_400_BAD_REQUEST,
                           "You cannot follow yourself")
               /\ following' = following
        /\ \A a \in Users :
            LET r == RunFollow(following', a, a)
            IN  /\ r.following = following'
                /\ Returned(r.resp, "follow", HTTP_400_BAD_REQUEST,
                            "You cannot follow yourself")
      ]_vars

\* C3 witness: a user who follows somebody was refused a self-follow.
C3_Witness ==
    \E p \in Procs :
        /\ Returned(req[p], "follow", HTTP_400_BAD_REQUEST, "You cannot follow yourself")
        /\ req[p].arg = req[p].user
        /\ following[req[p].user] # {}

\* C6: for distinct users A, B with A not following B, follow(A, B) then
\* unfollow(A, B), served one after the other, both succeed and restore A's
\* following set and following count (checked on every reachable graph).
C6_FollowUnfollowRestores ==
    \A a \in Users, b \in Users :
        (a # b /\ b \notin following[a]) =>
            LET r1 == RunFollow(following, a, b)
                r2 == RunUnfollow(r1.following, a, b)
            IN  /\ r1.resp.status = HTTP_200_OK
                /\ b \in r1.following[a]
                /\ r2.resp.status = HTTP_200_OK
                /\ r2.following[a] = following[a]
                /\ r2.resp.out = FollowingCount(following, a)
                /\ r2.resp.out = r1.resp.out - 1

\* C6 witness: an unfollow(A, B) served alone has just undone a follow: it
\* returned 200 with the count of the set that no longer holds B.
C6_Witness ==
    \E p \in Procs :
        /\ Returned(req[p], "unfollow", HTTP_200_OK, "")
        /\ req[p].alone
        /\ req[p].arg \in req[p].pre
        /\ following[req[p].user] = req[p].pre \ {req[p].arg}
        /\ req[p].out = FollowingCount(following, req[p].user)

\* C7: unfollow(A, B) when B exists and A does not follow B fails with 400
\* "You are not following" and changes no state.
C7_UnfollowNotFollowing ==
    [][ \A p \in Procs :
            (Arrives(p, "unfollow") /\ req'[p].user \in Users
                /\ req'[p].arg \in Users
                /\ req'[p].arg \notin following[req'[p].user])
            => /\ Returned(req'[p], "unfollow", HTTP_400_BAD_REQUEST,
                           "You are not following")
               /\ following' = following
               /\ UNCHANGED <<posts, engagement>>
      ]_vars

\* C7 witness: an unfollow of a user not followed was refused while the
\* graph is not empty.
C7_Witness ==
    \E p \in Procs :
        /\ Returned(req[p], "unfollow", HTTP_400_BAD_REQUEST, "You are not following")
        /\ req[p].arg \in Users
        /\ \E u \in Users : following[u] # {}

\* C9: follow(A, B) when A already follows B fails with 400 "You are already
\* following" and leaves A's following set unchanged.
C9_FollowAlreadyFollowing ==
    [][ \A p \in Procs :
            (Arrives(p, "follow") /\ req'[p].user \in Users
                /\ req'[p].arg \in following[req'[p].user])
            => /\ Returned(req'[p], "follow", HTTP_400_BAD_REQUEST,
                           "You are already following")
               /\ following' = following
      ]_vars

\* C9 witness: a follow of a user already followed was refused.
C9_Witness ==
    \E p \in Procs :
        /\ Returned(req[p], "follow", HTTP_400_BAD_REQUEST, "You are already following")
        /\ req[p].arg \in following[req[p].user]

\* C10: a successful follow(A, B) adds exactly B to A's following set (the
\* add statement changes nothing else), its count statement returns the size
\* of A's following set at that moment, and a follow served with no other
\* request in flight returns the previous count plus one.
C10_FollowAddsAndCounts ==
    [][ \A p \in Procs :
            /\ (req[p].op = "follow" /\ req[p].pc = "add" /\ req'[p].pc = "count")
               => /\ following' = [following EXCEPT
                                      ![req[p].user] = @ \cup {req[p].arg}]
                  /\ req[p].arg \in Users \ {req[p].user}
            /\ (req[p].op = "follow" /\ req[p].pc = "count" /\ req'[p].pc = "done")
               => /\ req'[p].status = HTTP_200_OK
                  /\ req'[p].out = Cardinality(following[req[p].user])
                  /\ req[p].alone
                     => /\ req'[p].out = Cardinality(req[p].pre) + 1
                        /\ following[req[p].user] = req[p].pre \cup {req[p].arg}
      ]_vars

\* C10 witness: a follow served alone returned 200 with count 1.
C10_Witness ==
    \E p \in Procs :
        /\ Returned(req[p], "follow", HTTP_200_OK, "")
        /\ req[p].alone
        /\ req[p].out = 1
        /\ following[req[p].user] = {req[p].arg}

\* C29: from every reachable graph in which A does not follow B, two
\* follow(A, B) requests served at the same time leave, in every
\* interleaving of their statements, B in A's following set and that set
\* larger by one, with every other set as it was; each request answers 200
\* with the new count or 400 "You are already following", and in the
\* interleavings where both check before either adds, both answer 200.
C29_ConcurrentFollowsAddOnce ==
    \A a \in Users, b \in Users :
        (a # b /\ b \notin following[a]) =>
            LET new == Goon("follow", a, b, "new", {})
                all == GraphRace(following, new, new)
            IN  /\ \A o \in all :
                      /\ o.following = [following EXCEPT ![a] = @ \cup {b}]
                      /\ Cardinality(o.following[a]) = Cardinality(following[a]) + 1
                      /\ \A r \in {o.a, o.b} :
                            \/ /\ Returned(r, "follow", HTTP_200_OK, "")
                               /\ r.out = Cardinality(following[a]) + 1
                            \/ Returned(r, "follow", HTTP_400_BAD_REQUEST,
                                        "You are already following")
                      /\ \E r \in {o.a, o.b} : r.status = HTTP_200_OK
                /\ \E o \in all : o.a.status = HTTP_200_OK /\ o.b.status = HTTP_200_OK

\* C29 witness: two overlapping follow(A, B) requests have both returned
\* 200 with count 1, and A follows B.
C29_Witness ==
    \E p \in Procs : \E q \in Procs \ {p} :
        /\ Returned(req[p], "follow", HTTP_200_OK, "")
        /\ Returned(req[q], "follow", HTTP_200_OK, "")
        /\ req[p].user = req[q].user /\ req[p].arg = req[q].arg
        /\ ~req[p].alone /\ ~req[q].alone
        /\ req[p].out = 1 /\ req[q].out = 1
        /\ following[req[p].user] = {req[p].arg}

(* ------------------- claims: likes and notifications ------------------ *)
\* The elements of a sequence.
Range(s) == {s[i] : i \in DOMAIN s}

\* C1: for every (user, post) at most one Like row exists in every reachable
\* state, whatever like and unlike requests interleaved; and from every
\* reachable state in which the user has no like on the post, two like
\* requests of that user for that post served at the same time, in every
\* interleaving of their statements, leave exactly one Like row, one request
\* answered 201 and the other 400 "You have already liked this post".
C1_OneLikePerUserAndPost ==
    /\ \A u \in Users, id \in TargetIds : Cardinality(LikeRows(likes, u, id)) <= 1
    /\ \A u \in Users, id \in 1..Len(posts) :
          LikeRows(likes, u, id) = {} =>
             \A o \in Race(DB, New("like", u, id, ""), New("like", u, id, "")) :
                /\ Cardinality(LikeRows(o.db.likes, u, id)) = 1
                /\ {o.a.status, o.b.status} = {HTTP_201_CREATED, HTTP_400_BAD_REQUEST}
                /\ \A r \in {o.a, o.b} :
                      r.status = HTTP_400_BAD_REQUEST
                      => r.error = "You have already liked this post"

\* C1 witness: two like requests of one user for one post overlapped: one
\* has returned 201, the other's INSERT was refused, and one row is stored.
C1_Witness ==
    \E p \in Procs : \E q \in Procs \ {p} :
        /\ Returned(req[p], "like", HTTP_201_CREATED, "")
        /\ req[q].op = "like" /\ req[q].pc = "retry"
        /\ req[q].user = req[p].user /\ req[q].arg = req[p].arg
        /\ Cardinality(LikeRows(likes, req[p].user, req[p].arg)) = 1

\* C4: from every reachable state, a successful like of a post by its own
\* author adds no Notification and a successful like by anybody else adds
\* exactly one, from the liker to the author; and every like notification
\* in every reachable state has an actor other than its recipient.
C4_LikeNotifiesOthersOnly ==
    /\ \A i \in DOMAIN notifications :
          notifications[i].verb = "liked your post"
          => notifications[i].actor # notifications[i].recipient
    /\ \A u \in Users, id \in 1..Len(posts) :
          LET n == Run(DB, New("like", u, id, ""))
          IN  n.r.status = HTTP_201_CREATED =>
                 IF posts[id].author = u
                 THEN n.db.notifications = notifications
                 ELSE n.db.notifications =
                         Append(notifications,
                                [recipient |-> posts[id].author, actor |-> u,
                                 verb |-> "liked your post", target |-> id,
                                 read |-> FALSE,
                                 created_at |-> Len(notifications) + 1])

\* C4 witness: the author and another user have both liked a post, and the
\* one notification there is goes from the other user to the author.
C4_Witness ==
    \E id \in 1..Len(posts) :
        /\ \E l \in likes : l.post = id /\ l.user = posts[id].author
        /\ \E l \in likes : l.post = id /\ l.user # posts[id].author
        /\ Len(notifications) = 1
        /\ notifications[1].recipient = posts[id].author
        /\ \E p \in Procs : Returned(req[p], "like", HTTP_201_CREATED, "")

\* C5: getFeed(A) is no error and returns exactly the posts whose author A
\* follows, ordered by created_at descending; it is empty when A follows
\* nobody.
C5_FeedFollowedNewestFirst ==
    \A p \in Procs :
        (req[p].op = "feed" /\ req[p].pc = "done" /\ req[p].user \in Users) =>
            LET s == req[p].out
            IN  /\ req[p].status = HTTP_200_OK
                /\ Range(s) = FeedPosts(following, req[p].user)
                /\ Len(s) = Cardinality(FeedPosts(following, req[p].user))
                /\ \A i, j \in DOMAIN s :
                      i < j => posts[s[i]].created_at >= posts[s[j]].created_at
                /\ following[req[p].user] = {} => s = <<>>

\* C8: when A's like of B's post P (A other than B) has returned 201 and its
\* notification is B's only unread one, unreadCount(B) returns 1, a
\* following listNotifications(B) returns 200 with the notification for P,
\* and unreadCount(B) after it returns 0.
C8_LikeCountListCount ==
    \A p \in Procs :
        LET r == req[p]
        IN  (/\ Returned(r, "like", HTTP_201_CREATED, "")
             /\ NotifiesAuthor(r.user, r.arg)
             /\ Unread(notifications, posts[r.arg].author) = {Len(notifications)}) =>
                LET b  == posts[r.arg].author
                    c1 == Run(DB, New("unread", b, 0, ""))
                    ls == Run(c1.db, New("list", b, 0, ""))
                    c2 == Run(ls.db, New("unread", b, 0, ""))
                IN  /\ c1.r.status = HTTP_200_OK /\ c1.r.out = 1
                    /\ ls.r.status = HTTP_200_OK
                    /\ Len(notifications) \in Range(ls.r.out)
                    /\ notifications[Len(notifications)].target = r.arg
                    /\ notifications[Len(notifications)].actor = r.user
                    /\ c2.r.status = HTTP_200_OK /\ c2.r.out = 0

\* C12: a like(U, P) that arrives when a Like (U, P) exists returns 400 "You
\* have already liked this post" from its first statement, and no step of a
\* like request that ends with 400 changes the Like or Notification rows.
C12_LikeAgainRefused ==
    [][ \A p \in Procs :
            /\ (/\ Arrives(p, "like")
                /\ req'[p].user \in Users
                /\ PostExists(req'[p].arg)
                /\ LikeRows(likes, req'[p].user, req'[p].arg) # {})
               => /\ Returned(req'[p], "like", HTTP_400_BAD_REQUEST,
                              "You have already liked this post")
                  /\ UNCHANGED <<following, posts, engagement>>
            /\ (/\ req'[p] # req[p]
                /\ req'[p].op = "like"
                /\ req'[p].status = HTTP_400_BAD_REQUEST)
               => UNCHANGED <<following, posts, engagement>>
      ]_vars

\* C12 witness: a second like of another user's post was refused; the first
\* like's row and notification are the only ones.
C12_Witness ==
    \E p \in Procs :
        /\ Returned(req[p], "like", HTTP_400_BAD_REQUEST,
                    "You have already liked this post")
        /\ NotifiesAuthor(req[p].user, req[p].arg)
        /\ Cardinality(likes) = 1
        /\ Len(notifications) = 1

\* C13: an unlike(U, P) of an existing post returns 404 and changes nothing
\* when U has no like on P.  Otherwise its delete removes the row it found
\* and no row of another user or post, and served alone the request returns
\* 204 and removes exactly the Like (U, P).  No step of an unlike changes
\* the notifications.
C13_UnlikeDeletesOnlyItsLike ==
    [][ /\ \A p \in Procs :
            /\ (/\ Arrives(p, "unlike")
                /\ req'[p].user \in Users
                /\ PostExists(req'[p].arg)
                /\ LikeRows(likes, req'[p].user, req'[p].arg) = {})
               => /\ Returned(req'[p], "unlike", HTTP_404_NOT_FOUND, "not found")
                  /\ UNCHANGED <<following, posts, engagement>>
            /\ (req[p].op = "unlike" /\ req[p].pc = "delete" /\ req'[p].pc = "done")
               => /\ req'[p].status = HTTP_204_NO_CONTENT
                  /\ likes' = {l \in likes : l.id # req[p].like}
                  /\ likes \ likes' \subseteq LikeRows(likes, req[p].user, req[p].arg)
            /\ (req'[p] # req[p] /\ req'[p].op = "unlike")
               => notifications' = notifications
        /\ \A u \in Users, id \in 1..Len(posts) :
              LikeRows(likes, u, id) # {} =>
                 LET n == Run(DB, New("unlike", u, id, ""))
                 IN  /\ n.r.status = HTTP_204_NO_CONTENT
                     /\ n.db.likes = likes \ LikeRows(likes, u, id)
                     /\ n.db.notifications = notifications
      ]_vars

\* C13 witness: an unlike has returned 204; the user's like is gone, another
\* user's like of the post is still there, and so is the notification that
\* the deleted like had sent.
C13_Witness ==
    \E p \in Procs :
        /\ Returned(req[p], "unlike", HTTP_204_NO_CONTENT, "")
        /\ LikeRows(likes, req[p].user, req[p].arg) = {}
        /\ \E l \in likes : l.post = req[p].arg
        /\ \E i \in DOMAIN notifications :
              notifications[i].actor = req[p].user /\ notifications[i].target = req[p].arg

\* C14: a like(U, P) of a post whose author is not U returns 201 only
\* through the statement that creates its notification, and that statement
\* appends one row with recipient = author(P), actor = U, verb = "liked your
\* post", target = P and read = FALSE, leaving the other rows as they were.
C14_LikeNotificationFields ==
    [][ \A p \in Procs :
            /\ (/\ req'[p] # req[p]
                /\ Returned(req'[p], "like", HTTP_201_CREATED, "")
                /\ posts[req'[p].arg].author # req'[p].user)
               => req[p].op = "like" /\ req[p].pc = "notify"
            /\ (req[p].op = "like" /\ req[p].pc = "notify" /\ req'[p] # req[p])
               => /\ Returned(req'[p], "like", HTTP_201_CREATED, "")
                  /\ Len(notifications') = Len(notifications) + 1
                  /\ SubSeq(notifications', 1, Len(notifications)) = notifications
                  /\ LET n == notifications'[Len(notifications')]
                     IN  /\ n.recipient = posts[req[p].arg].author
                         /\ n.actor = req[p].user
                         /\ n.verb = "liked your post"
                         /\ n.target = req[p].arg
                         /\ n.read = FALSE
      ]_vars

\* C14 witness: a like of another user's post has returned 201 and the last
\* notification is the unread one from the liker to the author about it.
C14_Witness ==
    \E p \in Procs :
        /\ Returned(req[p], "like", HTTP_201_CREATED, "")
        /\ posts[req[p].arg].author # req[p].user
        /\ notifications # <<>>
        /\ LET n == notifications[Len(notifications)]
           IN  /\ n.actor = req[p].user /\ n.target = req[p].arg
               /\ n.recipient = posts[req[p].arg].author /\ ~n.read

\* C15: listNotifications(U) returns (200) all notifications whose recipient
\* is U and no other, ordered by creation time descending, and every
\* notification of U that was unread when the call started is read.
C15_ListAllNewestFirstMarksRead ==
    \A p \in Procs :
        (req[p].op = "list" /\ req[p].pc = "done" /\ req[p].user \in Users) =>
            LET s == req[p].out
            IN  /\ req[p].status = HTTP_200_OK
                /\ Range(s) = NotificationsOf(notifications, req[p].user)
                /\ Len(s) = Cardinality(NotificationsOf(notifications, req[p].user))
                /\ \A i, j \in DOMAIN s :
                      i < j => notifications[s[i]].created_at
                                  >= notifications[s[j]].created_at
                /\ \A i \in req[p].pre : notifications[i].read

C17_ConcurrentListsAsOne ==
    \A u \in Users, q1 \in OrderingParams, q2 \in OrderingParams :
        LET one == Run(DB, New("list", u, 0, q1))
        IN  \A o \in Race(DB, New("list", u, 0, q1), New("list", u, 0, q2)) :
               /\ o.db = one.db
               /\ o.db.likes = likes
               /\ Len(o.db.notifications) = Len(notifications)
               /\ \A i \in DOMAIN notifications :
                     o.db.notifications[i] =
                        IF notifications[i].recipient = u
                        THEN [notifications[i] EXCEPT !.read = TRUE]
                        ELSE notifications[i]

\* C17 witness: two list calls of one user overlapped: one has marked the
\* unread rows and not queried yet, the other has updated after it (finding
\* nothing unread) and completed, and every row of the user is read.
C17_Witness ==
    \E p \in Procs : \E q \in Procs \ {p} :
        /\ req[p].op = "list" /\ req[p].pc = "list" /\ req[p].pre # {}
        /\ req[q].op = "list" /\ req[q].pc = "done" /\ req[q].user = req[p].user
        /\ req[q].pre = {} /\ req[q].out # <<>>
        /\ Unread(notifications, req[p].user) = {}

\* C18: in every step, no notification is deleted; a new one is unread; an
\* existing one keeps its recipient, actor, verb and target; a read one stays
\* read; and one turns from unread to read only in the update statement of
\* a listNotifications call of its recipient.
C18_NotificationLifeCycle ==
    [][ /\ Len(notifications') >= Len(notifications)
        /\ \A i \in DOMAIN notifications' :
              IF i \in DOMAIN notifications
              THEN LET a == notifications[i]
                       b == notifications'[i]
                   IN  /\ b.recipient = a.recipient /\ b.actor = a.actor
                       /\ b.verb = a.verb /\ b.target = a.target
                       /\ a.read => b.read
                       /\ (~a.read /\ b.read)
                          => \E p \in Procs :
                                /\ Arrives(p, "list")
                                /\ req'[p].pc = "list"
                                /\ req'[p].user = a.recipient
              ELSE ~notifications'[i].read
      ]_vars

\* C18 witness: a list call of the recipient has turned the first
\* notification read, and a later one is still unread.
C18_Witness ==
    /\ Len(notifications) >= 2
    /\ notifications[1].read
    /\ ~notifications[2].read
    /\ \E p \in Procs :
          /\ req[p].op = "list" /\ req[p].pre = {1}
          /\ req[p].user = notifications[1].recipient

\* The like notifications from u about post id.
LikeNotificationsOf(ns, u, id) ==
    {i \in DOMAIN ns : ns[i].actor = u /\ ns[i].target = id
                          /\ ns[i].verb = "liked your post"}

\* C28: for a user U and a post P of another author, every step in which a
\* like(U, P) returns 201 adds one to the number of like notifications from
\* U about P, and no other step (an unlike least of all) changes that
\* number: it counts the successful likes so far, not the Likes present.
C28_NotificationsCountLikes ==
    [][ \A u \in Users, id \in 1..Len(posts) :
            posts[id].author # u =>
                Cardinality(LikeNotificationsOf(notifications', u, id)) =
                    Cardinality(LikeNotificationsOf(notifications, u, id))
                    + (IF \E p \in Procs :
                             /\ req'[p] # req[p]
                             /\ Returned(req'[p], "like", HTTP_201_CREATED, "")
                             /\ req'[p].user = u /\ req'[p].arg = id
                       THEN 1 ELSE 0)
      ]_vars

\* C28 witness: after like, unlike, like the author holds two notifications
\* from U about P while one Like (U, P) exists.
C28_Witness ==
    \E u \in Users, id \in 1..Len(posts) :
        /\ posts[id].author # u
        /\ Cardinality(LikeNotificationsOf(notifications, u, id)) = 2
        /\ Cardinality(LikeRows(likes, u, id)) = 1
        /\ \A i \in LikeNotificationsOf(notifications, u, id) :
              notifications[i].recipient = posts[id].author

(* ----------------------- claims: the whole API ------------------------ *)
\* C11: a follow or unfollow whose target user id names no user, and a like
\* or unlike whose post id names no post, returns 404 from its first
\* statement and changes no table.
C11_MissingEntityNotFound ==
    [][ \A p \in Procs :
            (\/ /\ Arrives(p, "follow") \/ Arrives(p, "unfollow")
                /\ req'[p].user \in Users
                /\ req'[p].arg \notin Users
             \/ /\ Arrives(p, "like") \/ Arrives(p, "unlike")
                /\ req'[p].user \in Users
                /\ ~PostExists(req'[p].arg))
            => /\ Returned(req'[p], req'[p].op, HTTP_404_NOT_FOUND, "not found")
               /\ UNCHANGED <<following, posts, engagement>>
      ]_vars

\* C11 witness: with a follow edge, a post and a like in the tables, an
\* unfollow of a user that does not exist has returned 404.
C11_Witness ==
    /\ \E u \in Users : following[u] # {}
    /\ likes # {}
    /\ \E p \in Procs :
          /\ Returned(req[p], "unfollow", HTTP_404_NOT_FOUND, "not found")
          /\ req[p].user \in Users /\ req[p].arg \notin Users

\* C19: unreadCount(U) returns 200 with the number of notifications whose
\* recipient is U and that are unread, getFeed(U) returns 200 with the posts
\* of the authors U follows, and neither changes the following relation,
\* the posts, the likes or the notifications.
C19_CountAndFeedArePureReads ==
    [][ \A p \in Procs :
            /\ (Arrives(p, "unread") /\ req'[p].user \in Users)
               => /\ Returned(req'[p], "unread", HTTP_200_OK, "")
                  /\ req'[p].out =
                        Cardinality({i \in DOMAIN notifications :
                                        /\ notifications[i].recipient = req'[p].user
                                        /\ ~notifications[i].read})
                  /\ UNCHANGED <<following, posts, engagement>>
            /\ (Arrives(p, "feed") /\ req'[p].user \in Users)
               => /\ Returned(req'[p], "feed", HTTP_200_OK, "")
                  /\ Range(req'[p].out) =
                        {i \in DOMAIN posts : posts[i].author \in following[req'[p].user]}
                  /\ UNCHANGED <<following, posts, engagement>>
      ]_vars

\* C19 witness: a user who follows somebody has been told of one unread
\* notification, which is still unread.
C19_Witness ==
    \E p \in Procs :
        /\ Returned(req[p], "unread", HTTP_200_OK, "")
        /\ req[p].out = 1
        /\ Cardinality(Unread(notifications, req[p].user)) = 1
        /\ following[req[p].user] # {}

\* C20: getFeed returns a page of its result: of 10 posts at most when the
\* request names no page size, and of the requested number of posts at
\* most, capped at 100, when it names one.
C20_FeedPageSize ==
    \A p \in Procs :
        (req[p].op = "feed" /\ req[p].pc = "done" /\ req[p].user \in Users) =>
            LET size == IF req[p].arg = 0 THEN 10
                        ELSE IF req[p].arg > 100 THEN 100 ELSE req[p].arg
                all  == Cardinality(FeedPosts(following, req[p].user))
            IN  /\ req[p].status = HTTP_200_OK
                /\ Len(req[p].out) = IF all < size THEN all ELSE size

\* C21: a follow, unfollow, like or unlike request that carries no
\* authenticated identity is refused (401) from its first statement,
\* whether its target exists or not, and changes no table.
C21_AnonymousRefused ==
    [][ \A p \in Procs :
            (/\ req[p].pc = "idle"
             /\ req'[p].op \in {"follow", "unfollow", "like", "unlike"}
             /\ req'[p].user = Anonymous)
            => /\ Returned(req'[p], req'[p].op, HTTP_401_UNAUTHORIZED,
                           "not authenticated")
               /\ UNCHANGED <<following, posts, engagement>>
      ]_vars

\* C21 witness: with a follow edge and a like in the tables, an anonymous
\* like of a post that does not exist has been refused with 401, not 404.
C21_Witness ==
    /\ \E u \in Users : following[u] # {}
    /\ likes # {}
    /\ \E p \in Procs :
          /\ Returned(req[p], "like", HTTP_401_UNAUTHORIZED, "not authenticated")
          /\ req[p].user = Anonymous
          /\ ~PostExists(req[p].arg)

\* C30: a step changes the following set of a user A only as a follow(A, B)
\* or unfollow(A, B) request of A does, by adding or removing B: no request
\* changes the set of its target or of a third user.  No user follows
\* themselves, and a feed returned to A holds no post whose author is A.
C30_FollowIsDirected ==
    [][ /\ \A u \in Users :
              following'[u] # following[u] =>
                 \E p \in Procs :
                    /\ req[p].pc = "idle" /\ req'[p].user = u
                    /\ \/ /\ req'[p].op = "follow"
                          /\ following'[u] = following[u] \cup {req'[p].arg}
                       \/ /\ req'[p].op = "unfollow"
                          /\ following'[u] = following[u] \ {req'[p].arg}
        /\ \A u \in Users : u \notin following'[u]
        /\ \A p \in Procs :
              Returned(req'[p], "feed", HTTP_200_OK, "") =>
                 \A i \in Range(req'[p].out) : posts'[i].author # req'[p].user
      ]_vars

\* C30 witness: A follows B and B does not follow A; both have a post, and
\* the feed returned to A is B's post.
C30_Witness ==
    \E p \in Procs :
        LET a == req[p].user
        IN  /\ Returned(req[p], "feed", HTTP_200_OK, "")
            /\ a \in Users
            /\ \E i \in DOMAIN posts : posts[i].author = a
            /\ req[p].out # <<>>
            /\ \A i \in Range(req[p].out) :
                  /\ posts[i].author \in following[a]
                  /\ a \notin following[posts[i].author]

(* ------------------- advanced-api-project: books API ------------------ *)
\* User rows of the books API, and a session client: one of them or nobody.
ApiUsers == {1}

Clients == ApiUsers \cup {Anonymous}

\* Author rows, and the author ids a request may name (the last is no row).
Authors == {1}
AuthorIds == {1, 2}

Titles == {"Book A", "Book B"}

\* The years a request may name: past, current and future ones.
PublicationYears == FirstYear .. (MaxYear + 1)

\* The primary keys a URL may name: of a row, of a deleted row, of no row yet.
BookIds == 1 .. MaxBooks

BookSerializerFields == {"title", "publication_year", "author"}

\* The body of a request that submits the fields F.
Payload(F, t, y, a) ==
    [fields |-> F,
     title |-> IF "title" \in F THEN t ELSE "",
     publication_year |-> IF "publication_year" \in F THEN y ELSE 0,
     author |-> IF "author" \in F THEN a ELSE 0]

Payloads ==
    {Payload(F, t, y, a) : F \in SUBSET BookSerializerFields, t \in Titles,
                           y \in PublicationYears, a \in AuthorIds}

NoPayload == Payload({}, "", 0, 0)

\* The status of a request refused for want of credentials.
NotAuthenticatedStatus == HTTP_403_FORBIDDEN

IsAuthenticatedAllowAny(u) == TRUE

\* permission_classes = [IsAuthenticated]
IsAuthenticated(u) == u # Anonymous

SAFE_METHODS == {"GET", "HEAD", "OPTIONS"}

\* permission_classes = [IsAuthenticatedOrReadOnly]
IsAuthenticatedOrReadOnly(method, u) == method \in SAFE_METHODS \/ u # Anonymous

validate_publication_year_strict(value, today) == value < today

\* BookSerializer.validate_publication_year: TRUE when no error is raised.
validate_publication_year(value, today) == ~(value > today)

\* Book.clean: TRUE when no error is raised.
Book_clean(b, today) == ~(b.publication_year > today)

\* serializer.is_valid(): required fields, the year, the author's row.
BookSerializer_is_valid(data, partial, today) ==
    /\ partial \/ data.fields = BookSerializerFields
    /\ "publication_year" \in data.fields =>
           validate_publication_year(data.publication_year, today)
    /\ "author" \in data.fields => data.author \in Authors

\* serializer.save() without an instance.
BookSerializer_create(id, data) ==
    [id |-> id, title |-> data.title,
     publication_year |-> data.publication_year, author |-> data.author]

BookSerializer_update_all(b, data) ==
    [id |-> b.id, title |-> data.title,
     publication_year |-> data.publication_year, author |-> data.author]

\* serializer.save() with an instance: the validated fields are assigned.
BookSerializer_update(b, data) ==
    [id |-> b.id,
     title |-> IF "title" \in data.fields THEN data.title ELSE b.title,
     publication_year |-> IF "publication_year" \in data.fields
                          THEN data.publication_year ELSE b.publication_year,
     author |-> IF "author" \in data.fields THEN data.author ELSE b.author]

\* generics.get_object_or_404(self.queryset, pk=pk): the row, or none (404).
get_object_or_404(bs, pk) == {b \in bs : b.id = pk}

\* A request to the books API and its response.
Call(op, method, u, pk, data, status, out) ==
    [op |-> op, method |-> method, user |-> u, pk |-> pk, data |-> data,
     status |-> status, out |-> out]

NoCall == Call("none", "", Anonymous, 0, NoPayload, 0, {})

CatalogInit ==
    /\ books = {}
    /\ bookSeq = 0
    /\ year = FirstYear
    /\ call = NoCall

\* date.today() moves into the next year.
NewYear ==
    /\ year < MaxYear
    /\ year' = year + 1
    /\ UNCHANGED <<books, bookSeq, call, social, library>>

\* BookListView: GET /api/books/
BookListView_get ==
    \E u \in Clients :
        /\ call' = IF IsAuthenticatedOrReadOnly("GET", u)
                   THEN Call("list", "GET", u, 0, NoPayload, HTTP_200_OK, books)
                   ELSE Call("list", "GET", u, 0, NoPayload,
                             NotAuthenticatedStatus, {})
        /\ UNCHANGED <<books, bookSeq, year, social, library>>

\* BookDetailView: GET /api/books/<pk>/
BookDetailView_get ==
    \E u \in Clients, pk \in BookIds :
        LET obj == get_object_or_404(books, pk)
        IN  /\ call' = IF ~IsAuthenticatedOrReadOnly("GET", u)
                       THEN Call("retrieve", "GET", u, pk, NoPayload,
                                 NotAuthenticatedStatus, {})
                       ELSE IF obj = {}
                       THEN Call("retrieve", "GET", u, pk, NoPayload,
                                 HTTP_404_NOT_FOUND, {})
                       ELSE Call("retrieve", "GET", u, pk, NoPayload,
                                 HTTP_200_OK, obj)
            /\ UNCHANGED <<books, bookSeq, year, social, library>>

\* BookCreateView: POST /api/books/create/
BookCreateView_post ==
    \E u \in Clients, data \in Payloads :
        IF ~IsAuthenticated(u)
        THEN /\ call' = Call("create", "POST", u, 0, data,
                             NotAuthenticatedStatus, {})
             /\ UNCHANGED <<books, bookSeq, year, social, library>>
        ELSE IF ~BookSerializer_is_valid(data, FALSE, year)
        THEN /\ call' = Call("create", "POST", u, 0, data,
                             HTTP_400_BAD_REQUEST, {})
             /\ UNCHANGED <<books, bookSeq, year, social, library>>
        ELSE LET b == BookSerializer_create(bookSeq + 1, data)
             IN  /\ bookSeq < MaxBooks
                 /\ books' = books \cup {b}
                 /\ bookSeq' = bookSeq + 1
                 /\ call' = Call("create", "POST", u, 0, data,
                                 HTTP_201_CREATED, {b})
                 /\ UNCHANGED <<year, social, library>>

\* BookUpdateView: PUT or PATCH /api/books/<pk>/update/
BookUpdateView_update ==
    \E u \in Clients, pk \in BookIds, method \in {"PUT", "PATCH"},
       data \in Payloads :
        LET obj == get_object_or_404(books, pk)
        IN  IF ~IsAuthenticated(u)
            THEN /\ call' = Call("update", method, u, pk, data,
                                 NotAuthenticatedStatus, {})
                 /\ UNCHANGED <<books, bookSeq, year, social, library>>
            ELSE IF obj = {}
            THEN /\ call' = Call("update", method, u, pk, data,
                                 HTTP_404_NOT_FOUND, {})
                 /\ UNCHANGED <<books, bookSeq, year, social, library>>
            ELSE IF ~BookSerializer_is_valid(data, method = "PATCH", year)
            THEN /\ call' = Call("update", method, u, pk, data,
                                 HTTP_400_BAD_REQUEST, {})
                 /\ UNCHANGED <<books, bookSeq, year, social, library>>
            ELSE LET old == CHOOSE b \in obj : TRUE
                     new == BookSerializer_update(old, data)
                 IN  /\ books' = (books \ {old}) \cup {new}
                     /\ call' = Call("update", method, u, pk, data,
                                     HTTP_200_OK, {new})
                     /\ UNCHANGED <<bookSeq, year, social, library>>

\* BookDeleteView: DELETE /api/books/<pk>/delete/
BookDeleteView_delete ==
    \E u \in Clients, pk \in BookIds :
        LET obj == get_object_or_404(books, pk)
        IN  IF ~IsAuthenticated(u)
            THEN /\ call' = Call("delete", "DELETE", u, pk, NoPayload,
                                 NotAuthenticatedStatus, {})
                 /\ UNCHANGED <<books, bookSeq, year, social, library>>
            ELSE IF obj = {}
            THEN /\ call' = Call("delete", "DELETE", u, pk, NoPayload,
                                 HTTP_404_NOT_FOUND, {})
                 /\ UNCHANGED <<books, bookSeq, year, social, library>>
            ELSE /\ books' = books \ obj
                 /\ call' = Call("delete", "DELETE", u, pk, NoPayload,
                                 HTTP_204_NO_CONTENT, {})
                 /\ UNCHANGED <<bookSeq, year, social, library>>

(* ------------------------ claims: books API --------------------------- *)
\* The step serves a request to the books API.
Served(op) == year' = year /\ call'.op = op

\* C22: a create request of an unauthenticated client is rejected with 403
\* and adds no Book; a valid create request of an authenticated user
\* returns 201 and adds exactly one Book, the submitted one; list and
\* retrieve of an existing book return 200 to an unauthenticated client.
C22_CreateNeedsLogin ==
    [][ /\ (Served("create") /\ call'.user = Anonymous) =>
               /\ call'.status = HTTP_403_FORBIDDEN
               /\ books' = books
        /\ (/\ Served("create") /\ call'.user \in ApiUsers
            /\ call'.data.fields = BookSerializerFields
            /\ call'.data.publication_year <= year
            /\ call'.data.author \in Authors) =>
               /\ call'.status = HTTP_201_CREATED
               /\ Cardinality(books') = Cardinality(books) + 1
               /\ \E b \in books' \ books :
                     /\ books' = books \cup {b}
                     /\ b.title = call'.data.title
                     /\ b.publication_year = call'.data.publication_year
                     /\ b.author = call'.data.author
        /\ (Served("list") /\ call'.user = Anonymous) =>
               /\ call'.status = HTTP_200_OK
               /\ call'.out = books /\ books' = books
        /\ (/\ Served("retrieve") /\ call'.user = Anonymous
            /\ \E b \in books : b.id = call'.pk) =>
               /\ call'.status = HTTP_200_OK
               /\ call'.out = {b \in books : b.id = call'.pk}
               /\ books' = books
      ]_vars

\* C22 witness: an unauthenticated create was refused after a user's
\* create had added a book.
C22_Witness ==
    /\ call.op = "create" /\ call.user = Anonymous
    /\ call.data.fields = BookSerializerFields
    /\ call.data.publication_year <= year
    /\ call.status = HTTP_403_FORBIDDEN
    /\ Cardinality(books) = 1 /\ bookSeq = 1

\* The book a URL names, as a set: empty when no row has the id.
Named(bs, pk) == {b \in bs : b.id = pk}

\* C23: an authenticated delete of an existing book returns 204 and removes
\* that book only; an authenticated partial update of an existing book
\* with valid fields returns 200 and changes the submitted fields of that
\* book only; an update or delete of an id of no book returns 404 and
\* changes nothing.
C23_UpdateAndDelete ==
    [][ /\ (/\ Served("delete") /\ call'.user \in ApiUsers
            /\ Named(books, call'.pk) # {}) =>
               /\ call'.status = HTTP_204_NO_CONTENT
               /\ books' = books \ Named(books, call'.pk)
        /\ (/\ Served("update") /\ call'.method = "PATCH"
            /\ call'.user \in ApiUsers /\ Named(books, call'.pk) # {}
            /\ ("publication_year" \in call'.data.fields =>
                    call'.data.publication_year <= year)
            /\ ("author" \in call'.data.fields => call'.data.author \in Authors)) =>
               /\ call'.status = HTTP_200_OK
               /\ \A b \in books : b.id # call'.pk => b \in books'
               /\ \E old \in Named(books, call'.pk) :
                  \E new \in Named(books', call'.pk) :
                     /\ books' = (books \ {old}) \cup {new}
                     /\ new.title = IF "title" \in call'.data.fields
                                    THEN call'.data.title ELSE old.title
                     /\ new.publication_year =
                            IF "publication_year" \in call'.data.fields
                            THEN call'.data.publication_year
                            ELSE old.publication_year
                     /\ new.author = IF "author" \in call'.data.fields
                                     THEN call'.data.author ELSE old.author
        /\ (/\ (Served("update") \/ Served("delete"))
            /\ call'.user \in ApiUsers /\ Named(books, call'.pk) = {}) =>
               /\ call'.status = HTTP_404_NOT_FOUND
               /\ books' = books
      ]_vars

\* C23 witness: a partial update that submitted the title alone was served
\* while a second book is stored.
C23_Witness ==
    /\ call.op = "update" /\ call.method = "PATCH"
    /\ call.data.fields = {"title"}
    /\ call.status = HTTP_200_OK
    /\ Cardinality(books) = 2
    /\ \E b \in Named(books, call.pk) :
          /\ b.title = call.data.title
          /\ b.publication_year = FirstYear
          /\ \E c \in books : c.id # b.id /\ c.title # b.title

\* C24: no stored book has a publication year after the current year; a
\* create or update that names a future year is rejected as invalid (400)
\* and changes no book; one that names the current year is accepted.
C24_NoFuturePublication ==
    [][ /\ \A b \in books' : b.publication_year <= year' /\ Book_clean(b, year')
        /\ (/\ (Served("create") \/
                 (Served("update") /\ Named(books, call'.pk) # {}))
            /\ call'.user \in ApiUsers
            /\ "publication_year" \in call'.data.fields
            /\ call'.data.publication_year > year) =>
               /\ call'.status = HTTP_400_BAD_REQUEST
               /\ books' = books
        /\ (/\ (Served("create") \/
                 (Served("update") /\ Named(books, call'.pk) # {}))
            /\ call'.user \in ApiUsers
            /\ call'.data.fields = BookSerializerFields
            /\ call'.data.author \in Authors
            /\ call'.data.publication_year = year) =>
               /\ call'.status \in {HTTP_200_OK, HTTP_201_CREATED}
               /\ \E b \in books' : /\ b.publication_year = year
                                    /\ b \in call'.out
      ]_vars

\* C24 witness: a request that names a future year was rejected while a
\* book of the current year is stored.
C24_Witness ==
    /\ call.op \in {"create", "update"}
    /\ call.status = HTTP_400_BAD_REQUEST
    /\ call.data.fields = BookSerializerFields
    /\ call.data.author \in Authors
    /\ call.data.publication_year = year + 1
    /\ \E b \in books : b.publication_year = year

(* ------------- advanced_features_and_security: LibraryProject ---------- *)
\* User rows of the LibraryProject (created with create_user: no superuser).
Accounts == {1}

Visitors == Accounts \cup {Anonymous}

GroupNames == {"Viewers", "Editors", "Admins"}

Apps == {"relationship_app", "bookshelf"}

\* A permission as has_perm names it: "<app label>.<codename>".
Perm(app, codename) == <<app, codename>>

\* The permissions a user may hold directly (User.user_permissions).
DirectPermissions ==
    {Perm("relationship_app", "can_add_book"), Perm("bookshelf", "can_delete_book")}

\* Group.permissions after setup_groups_and_permissions.
ViewersPermissions == {"can_view_book"}

EditorsPermissions ==
    {"can_view_book", "can_create_book", "can_edit_book", "can_manage_authors"}

AdminsPermissions ==
    {"can_view_book", "can_create_book", "can_edit_book", "can_delete_book",
     "can_publish_book", "can_manage_authors"}

\* Permission.objects.filter(group__user=user): the permissions of the
\* user's groups, which are permissions of relationship_app's Book.
GroupPermissions(gs, ms, u) ==
    {Perm("relationship_app", c) : c \in UNION {gs[g] : g \in ms[u] \cap DOMAIN gs}}

\* user.has_perm(perm) of the model backend.
has_perm(gs, ms, ups, u, perm) ==
    /\ u # Anonymous
    /\ perm \in ups[u] \cup GroupPermissions(gs, ms, u)

\* A request to a LibraryProject view and its response.
Page(app, view, method, u, pk, status, out) ==
    [app |-> app, view |-> view, method |-> method, user |-> u, pk |-> pk,
     status |-> status, out |-> out]

NoPage == Page("", "none", "", Anonymous, 0, 0, {})

\* @permission_required(perm, raise_exception=True): the 403 of a refusal.
Forbidden(app, view, method, u, pk) ==
    Page(app, view, method, u, pk, HTTP_403_FORBIDDEN, {})

LibraryInit ==
    /\ groups = [g \in {} |-> {}]
    /\ members = [u \in Accounts |-> {}]
    /\ userPerms = [u \in Accounts |-> {}]
    /\ shelves = [a \in Apps |-> {}]
    /\ rowSeq = [a \in Apps |-> 0]
    /\ page = NoPage

\* The LibraryProject with the rows and direct permissions it was given
\* outside the views (Book.objects.create, admin grants).
LibraryStart ==
    /\ groups = [g \in {} |-> {}]
    /\ members = [u \in Accounts |-> {}]
    /\ userPerms \in [Accounts -> SUBSET DirectPermissions]
    /\ shelves \in [Apps -> {{}, {1}}]
    /\ rowSeq = [a \in Apps |-> Cardinality(shelves[a])]
    /\ page = NoPage

\* setup_groups_and_permissions()
setup_groups_and_permissions ==
    /\ groups' = [g \in GroupNames |->
                     IF g = "Viewers" THEN ViewersPermissions
                     ELSE IF g = "Editors" THEN EditorsPermissions
                     ELSE AdminsPermissions]
    /\ UNCHANGED <<members, userPerms, shelves, rowSeq, page, social, catalog>>

\* assign_user_to_group(username, group_name)
assign_user_to_group ==
    \E u \in Accounts, g \in GroupNames :
        /\ members' = IF g \in DOMAIN groups
                      THEN [members EXCEPT ![u] = @ \cup {g}]
                      ELSE members
        /\ UNCHANGED <<groups, userPerms, shelves, rowSeq, page, social, catalog>>

\* remove_user_from_group(username, group_name)
remove_user_from_group ==
    \E u \in Accounts, g \in GroupNames :
        /\ members' = IF g \in DOMAIN groups
                      THEN [members EXCEPT ![u] = @ \ {g}]
                      ELSE members
        /\ UNCHANGED <<groups, userPerms, shelves, rowSeq, page, social, catalog>>

Methods == {"GET", "POST"}

\* relationship_app.views.list_books
list_books ==
    \E u \in Visitors, method \in Methods :
        /\ page' = Page("relationship_app", "list_books", method, u, 0,
                        HTTP_200_OK, shelves["relationship_app"])
        /\ UNCHANGED <<groups, members, userPerms, shelves, rowSeq, social, catalog>>

\* relationship_app.views.add_book; valid is form.is_valid()
add_book ==
    \E u \in Visitors, method \in Methods, valid \in BOOLEAN :
        LET app == "relationship_app"
        IN  IF ~has_perm(groups, members, userPerms, u, Perm(app, "can_add_book"))
            THEN /\ page' = Forbidden(app, "add_book", method, u, 0)
                 /\ UNCHANGED <<groups, members, userPerms, shelves, rowSeq,
                                social, catalog>>
            ELSE IF method = "POST" /\ valid
            THEN /\ rowSeq[app] < MaxBooks
                 /\ shelves' = [shelves EXCEPT ![app] = @ \cup {rowSeq[app] + 1}]
                 /\ rowSeq' = [rowSeq EXCEPT ![app] = @ + 1]
                 /\ page' = Page(app, "add_book", method, u, 0,
                                 HTTP_302_FOUND, {})
                 /\ UNCHANGED <<groups, members, userPerms, social, catalog>>
            ELSE /\ page' = Page(app, "add_book", method, u, 0, HTTP_200_OK, {})
                 /\ UNCHANGED <<groups, members, userPerms, shelves, rowSeq,
                                social, catalog>>

delete_book_on_get(app, u, method, pk) ==
    IF ~has_perm(groups, members, userPerms, u, Perm(app, "can_delete_book"))
    THEN /\ page' = Forbidden(app, "delete_book", method, u, pk)
         /\ UNCHANGED <<groups, members, userPerms, shelves, rowSeq, social, catalog>>
    ELSE IF pk \notin shelves[app]
    THEN /\ page' = Page(app, "delete_book", method, u, pk,
                         HTTP_404_NOT_FOUND, {})
         /\ UNCHANGED <<groups, members, userPerms, shelves, rowSeq, social, catalog>>
    ELSE /\ shelves' = [shelves EXCEPT ![app] = @ \ {pk}]
         /\ page' = Page(app, "delete_book", method, u, pk, HTTP_302_FOUND, {})
         /\ UNCHANGED <<groups, members, userPerms, rowSeq, social, catalog>>

\* The delete_book view of an app: relationship_app.views.delete_book(pk),
\* bookshelf.views.delete_book(book_id).
delete_book(app, u, method, pk) ==
    IF ~has_perm(groups, members, userPerms, u, Perm(app, "can_delete_book"))
    THEN /\ page' = Forbidden(app, "delete_book", method, u, pk)
         /\ UNCHANGED <<groups, members, userPerms, shelves, rowSeq, social, catalog>>
    ELSE IF pk \notin shelves[app]
    THEN /\ page' = Page(app, "delete_book", method, u, pk,
                         HTTP_404_NOT_FOUND, {})
         /\ UNCHANGED <<groups, members, userPerms, shelves, rowSeq, social, catalog>>
    ELSE IF method = "POST"
    THEN /\ shelves' = [shelves EXCEPT ![app] = @ \ {pk}]
         /\ page' = Page(app, "delete_book", method, u, pk, HTTP_302_FOUND, {})
         /\ UNCHANGED <<groups, members, userPerms, rowSeq, social, catalog>>
    ELSE /\ page' = Page(app, "delete_book", method, u, pk, HTTP_200_OK, {pk})
         /\ UNCHANGED <<groups, members, userPerms, shelves, rowSeq, social, catalog>>

relationship_app_delete_book ==
    \E u \in Visitors, method \in Methods, pk \in BookIds :
        delete_book("relationship_app", u, method, pk)

bookshelf_delete_book ==
    \E u \in Visitors, method \in Methods, book_id \in BookIds :
        delete_book("bookshelf", u, method, book_id)

(* ---------------------- claims: LibraryProject ------------------------ *)
\* The step serves a request to the named view.
Viewed(view) == groups' = groups /\ members' = members /\ page'.view = view

\* The user holds the permission, directly or through a group.
Holds(u, perm) ==
    /\ u \in Accounts
    /\ \/ perm \in userPerms[u]
       \/ /\ perm[1] = "relationship_app"
          /\ \E g \in members[u] \cap DOMAIN groups : perm[2] \in groups[g]

\* The user's permissions are those of the one group the user is in.
MemberOf(u, g) ==
    /\ DOMAIN groups = GroupNames
    /\ u \in Accounts /\ members[u] = {g} /\ userPerms[u] = {}

\* C25: after setup_groups_and_permissions, a Viewers member gets 403 on
\* the add-book view; an Editors member gets 200 on the add-book view and
\* 403 on the delete-book view; an Admins member gets 200 on the add-book
\* view and on the delete-book view of an existing book.
C25_GroupAccess ==
    [][ /\ (Viewed("add_book") /\ MemberOf(page'.user, "Viewers")) =>
               page'.status = HTTP_403_FORBIDDEN
        /\ (Viewed("add_book") /\ page'.method = "GET"
               /\ MemberOf(page'.user, "Editors")) =>
               page'.status = HTTP_200_OK
        /\ (Viewed("delete_book") /\ page'.app = "relationship_app"
               /\ MemberOf(page'.user, "Editors")) =>
               page'.status = HTTP_403_FORBIDDEN
        /\ (Viewed("add_book") /\ page'.method = "GET"
               /\ MemberOf(page'.user, "Admins")) =>
               page'.status = HTTP_200_OK
        /\ (Viewed("delete_book") /\ page'.app = "relationship_app"
               /\ page'.method = "GET" /\ page'.pk \in shelves[page'.app]
               /\ MemberOf(page'.user, "Admins")) =>
               page'.status = HTTP_200_OK
      ]_vars

\* C26: an unauthenticated request to the book list view of
\* relationship_app is redirected (302) or forbidden (403).
C26_ListNeedsLogin ==
    (page.view = "list_books" /\ page.user = Anonymous) =>
        page.status \in {HTTP_302_FOUND, HTTP_403_FORBIDDEN}

\* C27: in the delete_book views a GET of a user who holds the delete
\* permission shows the confirmation page of the book and deletes nothing;
\* a book leaves the table only by a POST of such a user to delete_book,
\* and it is the book named; a request of a user without the permission
\* is refused with 403 and deletes nothing.
C27_DeleteOnlyByPost ==
    [][ /\ (/\ Viewed("delete_book") /\ page'.method = "GET"
            /\ Holds(page'.user, Perm(page'.app, "can_delete_book"))
            /\ page'.pk \in shelves[page'.app]) =>
               /\ page'.status = HTTP_200_OK /\ page'.out = {page'.pk}
               /\ shelves' = shelves
        /\ \A a \in Apps : \A id \in shelves[a] \ shelves'[a] :
               /\ Viewed("delete_book") /\ page'.method = "POST"
               /\ page'.app = a /\ page'.pk = id
               /\ Holds(page'.user, Perm(a, "can_delete_book"))
               /\ shelves' = [shelves EXCEPT ![a] = @ \ {id}]
        /\ (/\ Viewed("delete_book")
            /\ ~Holds(page'.user, Perm(page'.app, "can_delete_book"))) =>
               /\ page'.status = HTTP_403_FORBIDDEN
               /\ shelves' = shelves
      ]_vars

\* C27 witness: an Admins member's GET showed the confirmation page of a
\* book of relationship_app, which is still there, after a POST had
\* deleted the book of bookshelf.
C27_Witness ==
    /\ page.view = "delete_book" /\ page.app = "relationship_app"
    /\ page.method = "GET" /\ page.status = HTTP_200_OK
    /\ page.user \in Accounts /\ "Admins" \in members[page.user]
    /\ page.pk \in shelves["relationship_app"]
    /\ shelves["bookshelf"] = {} /\ rowSeq["bookshelf"] = 1

(* --------------------------- specifications --------------------------- *)
Init ==
    /\ following = [u \in Users |-> {}]
    /\ posts = <<>>
    /\ likes = {}
    /\ likeSeq = 0
    /\ notifications = <<>>
    /\ req = [p \in Procs |-> Idle]
    /\ CatalogInit
    /\ LibraryInit

GraphNext ==
    \E p \in Procs :
        \/ FollowUserView_check(p)
        \/ FollowUserView_add(p)
        \/ FollowUserView_count(p)
        \/ UnfollowUserView_check(p)
        \/ UnfollowUserView_remove(p)
        \/ UnfollowUserView_count(p)
        \/ Respond(p)

\* The follow graph under concurrent follow and unfollow requests.
SpecGraph == Init /\ [][GraphNext]_vars

FeedNext ==
    \/ FollowUserView_post("r1")
    \/ UnfollowUserView_post("r1")
    \/ PostViewSet_create("r1")
    \/ FeedView_list("r1")
    \/ Respond("r1")

LikeNext ==
    \E p \in Procs :
        \/ PostViewSet_create(p) /\ Len(posts) < MaxTargets
        \/ LikePostView_get(p)
        \/ LikePostView_create(p)
        \/ LikePostView_retry(p)
        \/ LikePostView_notify(p)
        \/ UnlikePostView_get(p)
        \/ UnlikePostView_delete(p)
        \/ Respond(p)

\* Posts and likes under concurrent like and unlike requests.
SpecLike == Init /\ [][LikeNext]_vars

EngageNext ==
    \/ PostViewSet_create("r1") /\ Len(posts) < MaxTargets
    \/ LikePostView_get("r1")
    \/ LikePostView_create("r1")
    \/ LikePostView_notify("r1")
    \/ UnlikePostView_get("r1")
    \/ UnlikePostView_delete("r1")
    \/ NotificationListView_update("r1")
    \/ NotificationListView_list("r1")
    \/ UnreadNotificationCountView_get("r1")
    \/ Respond("r1")

\* Posts, likes and notifications, requests served one at a time.
SpecEngage == Init /\ [][EngageNext]_vars

\* The follow graph, the posts and the feed, requests served one at a time.
SpecFeed == Init /\ [][FeedNext]_vars

AllNext ==
    \/ FollowUserView_post("r1")
    \/ UnfollowUserView_post("r1")
    \/ PostViewSet_create("r1") /\ Len(posts) < MaxTargets
    \/ FeedView_list("r1")
    \/ LikePostView_get("r1")
    \/ LikePostView_create("r1")
    \/ LikePostView_notify("r1")
    \/ UnlikePostView_get("r1")
    \/ UnlikePostView_delete("r1")
    \/ NotificationListView_update("r1")
    \/ NotificationListView_list("r1")
    \/ UnreadNotificationCountView_get("r1")
    \/ Respond("r1")

\* Every handler of the API, requests served one at a time.
SpecAll == Init /\ [][AllNext]_vars

NotifyNext ==
    \E p \in Procs :
        \/ PostViewSet_create(p) /\ Len(posts) < MaxTargets
        \/ LikePostView_get(p)
        \/ LikePostView_create(p)
        \/ LikePostView_retry(p)
        \/ LikePostView_notify(p)
        \/ UnlikePostView_get(p)
        \/ UnlikePostView_delete(p)
        \/ NotificationListView_update(p)
        \/ NotificationListView_list(p)
        \/ UnreadNotificationCountView_get(p)
        \/ Respond(p)

\* Likes and the notification views under concurrent requests.
SpecNotify == Init /\ [][NotifyNext]_vars

BooksInit ==
    /\ following = [u \in Users |-> {}]
    /\ posts = <<>>
    /\ likes = {}
    /\ likeSeq = 0
    /\ notifications = <<>>
    /\ req = [p \in Procs |-> Idle]
    /\ CatalogInit
    /\ LibraryInit

BooksNext ==
    \/ BookListView_get
    \/ BookDetailView_get
    \/ BookCreateView_post
    \/ BookUpdateView_update
    \/ BookDeleteView_delete
    \/ NewYear

\* The books API, requests served one at a time, as the years pass.
SpecBooks == BooksInit /\ [][BooksNext]_vars

LibraryProjectInit ==
    /\ following = [u \in Users |-> {}]
    /\ posts = <<>>
    /\ likes = {}
    /\ likeSeq = 0
    /\ notifications = <<>>
    /\ req = [p \in Procs |-> Idle]
    /\ CatalogInit
    /\ LibraryStart

LibraryNext ==
    \/ setup_groups_and_permissions
    \/ assign_user_to_group
    \/ remove_user_from_group
    \/ list_books
    \/ add_book
    \/ relationship_app_delete_book
    \/ bookshelf_delete_book

\* The groups, the permissions and the book views of the LibraryProject.
SpecLibrary == LibraryProjectInit /\ [][LibraryNext]_vars

====
